---- MODULE Spec2Model ----
(***************************************************************************)
(* Multi-format parsing and path-reconstruction engine of the OpenFPGA     *)
(* soft-core platform: the VPR timing-report parser, the BLIF netlist      *)
(* parser, the physical-block locator and the path builder.                *)
(*                                                                         *)
(* Three specifications share the module's variables:                      *)
(*   SpecTiming  - VprReportTimingParser scanning a report line by line    *)
(*   SpecBlif    - BlifParser scanning a netlist line by line              *)
(*   SpecFusion  - PBLocator lookups and PathBuilder enrichments           *)
(* Times are decimal numbers counted in tenths (5 stands for 0.5).         *)
(***************************************************************************)
EXTENDS Integers, Sequences, FiniteSets, TLC

\* ------------------------------------------------------------------------
\* Optional values: None is the empty tuple, Some(v) the 1-tuple.
\* ------------------------------------------------------------------------
None == << >>
Some(v) == << v >>
IsNone(o) == o = << >>
Val(o) == o[1]

\* ------------------------------------------------------------------------
\* Bounds of the model
\* ------------------------------------------------------------------------
\* number of report lines scanned by the timing-report parser
MaxLines == 5
\* number of netlist lines scanned by the netlist parser
MaxBlifLines == 5
\* number of points of a Path handed to PathBuilder
MaxPathLen == 3
\* largest path id of a "#Path <id>" line, largest nb_paths argument
MaxId == 2
\* number of statements of the model of a queried netlist
MaxStmts == 2

VARIABLES
    \* ---- VprReportTimingParser ----
    rt_pc,       \* "idle": not in use, "scan": in the loop of parse(),
                 \* "done": constructed, "raised_break": TypeError at line
                 \* 168, "raised_stats": TypeError in get_stats
    nb_paths,    \* self.nb_paths: None or Some(n)
    precision,   \* local 'precision' of parse()
    path,        \* the Path being filled
    t_incr,      \* carried net delay
    token,       \* path-body token
    paths,       \* self.paths
    groups,      \* self.groups, in insertion order
    stats,       \* self.stats
    nread,       \* number of lines scanned so far
    arg_nb_paths,\* history: the nb_paths argument of the constructor
    slack_log,   \* history: slack values of the slack lines scanned so far
    last_line,   \* history: None, or Some(the line scanned last) when the
                 \* scan is traced
    \* ---- BlifParser ----
    bl_pc,       \* "idle" | "scan" | "done"
    bl_heap,     \* every BlifModel object created so far, by identity
    bl_model,    \* 'model' of parse(): None or Some(identity)
    bl_block,    \* 'block' of parse(): None or Some(<<identity, table, index>>)
    bl_models,   \* self.models: a list of None / Some(identity)
    bl_nread,    \* number of netlist lines scanned so far
    bl_open,     \* history: a .model was scanned and no .end since
    bl_end_log,  \* history: per .end scanned, the model it closes
    \* ---- PBLocator / PathBuilder ----
    net,         \* VprNetParser.root: the top-level blocks of the hierarchy
    place,       \* VprPlaceParser: block name -> <<x, y, sub-index>>
    lut,         \* PBLocator._lut
    blif,        \* the BlifParser handed to PathBuilder: None, or Some(its
                 \* list 'models' of None / Some(BlifModel))
    fu_pc,       \* "idle" | "run": the caller's loop over the paths runs,
                 \* "raised": an exception left the loop
    fu_call,     \* the latest call, its argument and what it returned
    workers,     \* per worker of the pool: the Path it enriches, its
                 \* position in PathBuilder.__init__ and its locals
    \* ---- Net (vpr_route_parser.py) ----
    route_net,   \* the Net: the list of its nodes
    route_call,  \* the latest get_route call and what it returned
    \* ---- BaseParser ----
    bp_rules,    \* self._mregex_rules, each with its token
    bp_results,  \* self.results, in insertion order
    bp_scanned,  \* history: the lines scanned so far
    bp_stored    \* history: per line scanned, the multi-line rules that
                 \* stored its match

fvars == << net, place, lut, blif, fu_pc, fu_call, workers >>

bvars == << bl_pc, bl_heap, bl_model, bl_block, bl_models, bl_nread,
            bl_open, bl_end_log >>

rvars == << route_net, route_call >>

pvars == << bp_rules, bp_results, bp_scanned, bp_stored >>

tvars == << rt_pc, nb_paths, precision, path, t_incr, token, paths, groups,
            stats, nread, arg_nb_paths, slack_log, last_line >>

vars == << tvars, bvars, fvars, rvars, pvars >>

\* ------------------------------------------------------------------------
\* Timing report: the lines of a report, classified by the regular
\* expression they match (vpr_report_timing_parser.py:39-63).
\*   form of a point line: "edge"   <name> (<type>) [<edge>] <incr> <sum>
\*                         "plain"  <name> (<type>)   <incr> <sum>  (>= 2 blanks)
\*                         "narrow" <name> (<type>) <incr> <sum>    (1 blank)
\* ------------------------------------------------------------------------
PointNames == {"a", "y"}
Forms == {"edge", "plain", "narrow"}
SlackValues == {0 - 3, 5}

\* (incr, sum) columns of the point lines
Columns == {<<0, 0>>, <<5, 5>>}

\* a line: its kind k, and what its groups capture (name, n, s)
Line(k, name, form, n, s) ==
    [k |-> k, name |-> name, form |-> form, n |-> n, s |-> s]

ReportLines ==
    {Line("precision", "", "", 0, 0)}
    \cup {Line("pathid", "", "", i, 0) : i \in 1..MaxId}
    \cup {Line("startpoint", p, "", 0, 0) : p \in PointNames}
    \cup {Line("endpoint", p, "", 0, 0) : p \in PointNames}
    \cup {Line("type", "setup", "", 0, 0)}
    \cup {Line("arrival", "", "", 10, 0)}
    \cup {Line("required", "", "", 20, 0)}
    \cup {Line("slack", "", "", v, 0) : v \in SlackValues}
    \cup {Line("point", p, f, c[1], c[2]) :
             p \in PointNames, f \in Forms, c \in Columns}
    \cup {Line("net", "", "", 5, 5)}
    \cup {Line("other", "", "", 0, 0)}

\* Path.__init__
NewPath == [id |-> None, startpoint |-> None, endpoint |-> None,
            type |-> None, arrival_time |-> None, required_time |-> None,
            slack_time |-> None, points |-> << >>]

\* _rcPathPoint: the edge-clock group is optional but is surrounded by two
\* \s+, so a line without it needs two blanks before the increment.
MatchPathPoint(line) == line.k = "point" /\ line.form \in {"edge", "plain"}

\* _rStartToken.format(startpoint): same tail as _rcPathPoint
MatchStartToken_AnyPoint(line, sp) == MatchPathPoint(line)
MatchStartToken(line, sp) == MatchPathPoint(line) /\ line.name = sp

\* _rEndToken.format(endpoint): no edge-clock group, a single \s+
MatchEndToken(line, ep) ==
    line.k = "point" /\ line.form \in {"plain", "narrow"} /\ line.name = ep

MatchPathNet(line) == line.k = "net"

\* _rcSlackTime: the value may be negative
MatchSlackTime_NoSign(line) == line.k = "slack" /\ line.n >= 0
MatchSlackTime(line) == line.k = "slack"

\* "{:.{p}f}".format(t, p=precision) read back by float(): a value counted
\* in tenths is kept when p >= 1 and rounded half-to-even to a whole number
\* when p = 0.
FormatFloat(t, p) ==
    IF p >= 1 THEN t
    ELSE LET q == t \div 10
             r == t % 10
         IN IF r < 5 THEN 10 * q
            ELSE IF r > 5 THEN 10 * (q + 1)
            ELSE IF q % 2 = 0 THEN 10 * q ELSE 10 * (q + 1)

\* for regex, attrib, fmt in self._path_desc: set the attribute when the
\* line matches and the attribute is still None
SetIfNone_Always(p, attrib, v) == [p EXCEPT ![attrib] = Some(v)]
SetIfNone(p, attrib, v) ==
    IF IsNone(p[attrib]) THEN [p EXCEPT ![attrib] = Some(v)] ELSE p

PathDesc(p, line) ==
    CASE line.k = "pathid"     -> SetIfNone(p, "id", line.n)
      [] line.k = "startpoint" -> SetIfNone(p, "startpoint", line.name)
      [] line.k = "endpoint"   -> SetIfNone(p, "endpoint", line.name)
      [] line.k = "type"       -> SetIfNone(p, "type", line.name)
      [] line.k = "arrival"    -> SetIfNone(p, "arrival_time", line.n)
      [] line.k = "required"   -> SetIfNone(p, "required_time", line.n)
      [] MatchSlackTime(line)  -> SetIfNone(p, "slack_time", line.n)
      [] OTHER                 -> p

\* the point appended for a point line, with the clamp of lines 191-194
NewPoint_NoClamp(line, carry, prec) ==
    [point |-> line.name, t_incr |-> line.n, t_sum |-> line.s]
NewPoint(line, carry, prec) ==
    [point |-> line.name,
     t_incr |-> IF line.n < carry THEN FormatFloat(carry, prec) ELSE line.n,
     t_sum |-> line.s]

Abs(x) == IF x < 0 THEN 0 - x ELSE x

\* lines 220-221: a further path of the startpoint of group g
AddToGroup_Front(g, p) ==
    [g EXCEPT !.end_list = << p.endpoint >> \o @, !.total = @ + 1]
AddToGroup(g, p) ==
    [g EXCEPT !.end_list = Append(@, p.endpoint), !.total = @ + 1]

\* get_groups: one group per startpoint, in order of first occurrence
RECURSIVE GetGroups(_, _)
GetGroups(ps, gs) ==
    IF ps = << >> THEN gs
    ELSE LET p == Head(ps)
             hit == {i \in 1..Len(gs) : gs[i].start = p.startpoint}
         IN IF hit # {}
            THEN LET i == CHOOSE j \in hit : TRUE
                 IN GetGroups(Tail(ps), [gs EXCEPT ![i] = AddToGroup(@, p)])
            ELSE GetGroups(Tail(ps),
                        Append(gs, [start |-> p.startpoint,
                                    end |-> p.endpoint,
                                    end_list |-> << p.endpoint >>,
                                    total |-> 1]))

\* get_stats raises a TypeError in np.abs(None) when the first or the last
\* path has no arrival time
StatsRaises(ps) ==
    /\ ps # << >>
    /\ (IsNone(ps[1].arrival_time) \/ IsNone(ps[Len(ps)].arrival_time))

GetStats(ps) ==
    IF ps = << >> THEN None
    ELSE LET high == Val(ps[1].arrival_time)
             low == Val(ps[Len(ps)].arrival_time)
         IN Some([highest_arrival_time |-> high,
                  lowest_arrival_time |-> low,
                  arrival_time_deviation |-> Abs(high) - Abs(low)])

\* the end of parse() (line 215) and the rest of __init__ (lines 121-122)
AfterLoop(ps) ==
    /\ nb_paths' = Some(Len(ps))
    /\ groups' = GetGroups(ps, << >>)
    /\ IF StatsRaises(ps)
       THEN rt_pc' = "raised_stats" /\ stats' = None
       ELSE rt_pc' = "done" /\ stats' = GetStats(ps)

\* the loop breaker of lines 167-169; comparing None with an int raises
BreakRaises(p) == ~IsNone(nb_paths) /\ IsNone(p.id)
BreakLoop_Strict(p) ==
    ~IsNone(nb_paths) /\ ~IsNone(p.id) /\ Val(p.id) > Val(nb_paths)
BreakLoop(p) ==
    ~IsNone(nb_paths) /\ ~IsNone(p.id) /\ Val(p.id) >= Val(nb_paths)

\* lines 172-213 for a line that is no slack line, p being the current path
ScanBody(line, p) ==
    IF IsNone(p.startpoint) \/ IsNone(p.endpoint)
    THEN /\ path' = p
         /\ UNCHANGED << t_incr, token >>
    ELSE LET tok1 == token \/ MatchStartToken(line, Val(p.startpoint))
             m == MatchPathPoint(line)
             carry1 == IF m THEN 0 ELSE t_incr
         IN /\ path' = IF m /\ tok1
                       THEN [p EXCEPT !.points =
                               Append(@, NewPoint(line, t_incr, precision'))]
                       ELSE p
            /\ t_incr' = IF MatchPathNet(line) THEN carry1 + line.n ELSE carry1
            /\ token' = IF MatchEndToken(line, Val(p.endpoint)) /\ tok1
                        THEN FALSE ELSE tok1

\* one iteration of the loop of parse() (lines 148-213)
ScanLine(line) ==
    LET p == PathDesc(path, line) IN
    /\ precision' = IF line.k = "precision" THEN line.n ELSE precision
    /\ IF MatchSlackTime(line)
       THEN /\ paths' = Append(paths, p)
            /\ UNCHANGED << t_incr, token >>
            /\ IF BreakRaises(p)
               THEN /\ rt_pc' = "raised_break"
                    /\ path' = p
                    /\ UNCHANGED << nb_paths, groups, stats >>
               ELSE IF BreakLoop(p)
               THEN /\ path' = p
                    /\ AfterLoop(paths')
               ELSE /\ path' = NewPath
                    /\ UNCHANGED << rt_pc, nb_paths, groups, stats >>
       ELSE /\ ScanBody(line, p)
            /\ UNCHANGED << paths, rt_pc, nb_paths, groups, stats >>

ReadLine ==
    /\ rt_pc = "scan"
    /\ nread < MaxLines
    /\ \E line \in ReportLines :
          /\ ScanLine(line)
          /\ slack_log' = IF line.k = "slack"
                          THEN Append(slack_log, line.n) ELSE slack_log
    /\ nread' = nread + 1
    /\ UNCHANGED << arg_nb_paths, last_line, bvars, fvars, rvars, pvars >>

\* the lines of the body of a path, of its start and end declarations and
\* of the file header
TracedLines ==
    {line \in ReportLines :
        line.k \in {"precision", "startpoint", "endpoint", "slack", "point",
                    "net", "other"}}

\* the same iteration, the line it scans being recorded
ReadLineTraced ==
    /\ rt_pc = "scan"
    /\ nread < MaxLines
    /\ \E line \in TracedLines :
          /\ ScanLine(line)
          /\ slack_log' = IF line.k = "slack"
                          THEN Append(slack_log, line.n) ELSE slack_log
          /\ last_line' = Some(line)
    /\ nread' = nread + 1
    /\ UNCHANGED << arg_nb_paths, bvars, fvars, rvars, pvars >>

\* the end of the file is reached
EndOfFile ==
    /\ rt_pc = "scan"
    /\ AfterLoop(paths)
    /\ UNCHANGED << precision, path, t_incr, token, paths, nread,
                    arg_nb_paths, slack_log, last_line, bvars, fvars, rvars, pvars >>

\* __init__ and the first lines of parse() (113-119, 145-147)
DefaultPrecision == 3

InitTiming ==
    /\ rt_pc = "scan"
    /\ nb_paths \in {None} \cup {Some(n) : n \in 1..MaxId}
    /\ arg_nb_paths = nb_paths
    /\ precision = DefaultPrecision
    /\ path = NewPath
    /\ t_incr = 0
    /\ token = FALSE
    /\ paths = << >>
    /\ groups = << >>
    /\ stats = None
    /\ nread = 0
    /\ slack_log = << >>
    /\ last_line = None
    \* the other components are not in use
    /\ bl_pc = "idle"
    /\ bl_heap = << >>
    /\ bl_model = None
    /\ bl_block = None
    /\ bl_models = << >>
    /\ bl_nread = 0
    /\ bl_open = FALSE
    /\ bl_end_log = << >>
    /\ net = << >>
    /\ place = << >>
    /\ lut = << >>
    /\ blif = None
    /\ fu_pc = "idle"
    /\ fu_call = [op |-> "none"]
    /\ workers = << >>
    /\ route_net = << >>
    /\ route_call = [op |-> "none"]
    /\ bp_rules = << >>
    /\ bp_results = << >>
    /\ bp_scanned = << >>
    /\ bp_stored = << >>

NextTiming == ReadLine \/ EndOfFile

SpecTiming == InitTiming /\ [][NextTiming]_vars

\* the parser constructed without nb_paths, its scan traced
InitTimingTraced ==
    /\ rt_pc = "scan"
    /\ nb_paths = None
    /\ arg_nb_paths = None
    /\ precision = DefaultPrecision
    /\ path = NewPath
    /\ t_incr = 0
    /\ token = FALSE
    /\ paths = << >>
    /\ groups = << >>
    /\ stats = None
    /\ nread = 0
    /\ slack_log = << >>
    /\ last_line = None
    \* the other components are not in use
    /\ bl_pc = "idle"
    /\ bl_heap = << >>
    /\ bl_model = None
    /\ bl_block = None
    /\ bl_models = << >>
    /\ bl_nread = 0
    /\ bl_open = FALSE
    /\ bl_end_log = << >>
    /\ net = << >>
    /\ place = << >>
    /\ lut = << >>
    /\ blif = None
    /\ fu_pc = "idle"
    /\ fu_call = [op |-> "none"]
    /\ workers = << >>
    /\ route_net = << >>
    /\ route_call = [op |-> "none"]
    /\ bp_rules = << >>
    /\ bp_results = << >>
    /\ bp_scanned = << >>
    /\ bp_stored = << >>

NextTimingTraced == ReadLineTraced \/ EndOfFile

SpecTimingTraced == InitTimingTraced /\ [][NextTimingTraced]_vars

\* the header lines of a path block: two lines of different values for
\* each pattern of _path_desc, and the slack line that ends the block
HeaderLines ==
    {Line("pathid", "", "", i, 0) : i \in 1..MaxId}
    \cup {Line("startpoint", p, "", 0, 0) : p \in PointNames}
    \cup {Line("endpoint", p, "", 0, 0) : p \in PointNames}
    \cup {Line("type", t, "", 0, 0) : t \in {"setup", "hold"}}
    \cup {Line("arrival", "", "", n, 0) : n \in {10, 15}}
    \cup {Line("required", "", "", n, 0) : n \in {20, 25}}
    \cup {Line("slack", "", "", 5, 0)}

\* the same iteration on the header lines of a report, the line it scans
\* being recorded
ReadHeaderLine ==
    /\ rt_pc = "scan"
    /\ nread < MaxLines
    /\ \E line \in HeaderLines :
          /\ ScanLine(line)
          /\ slack_log' = IF line.k = "slack"
                          THEN Append(slack_log, line.n) ELSE slack_log
          /\ last_line' = Some(line)
    /\ nread' = nread + 1
    /\ UNCHANGED << arg_nb_paths, bvars, fvars, rvars, pvars >>

NextTimingHeader == ReadHeaderLine \/ EndOfFile

SpecTimingHeader == InitTimingTraced /\ [][NextTimingHeader]_vars

\* ------------------------------------------------------------------------
\* BLIF netlist parser (blif_parser.py)
\* ------------------------------------------------------------------------
ModelNames == {"m1", "m2"}

\* a netlist line: its directive k and what the groups of its regex capture
BLine(k, a, b) == [k |-> k, a |-> a, b |-> b, p |-> ""]
\* .subckt <name> <port>=<signal>
SubcktLine(name, port, signal) ==
    [k |-> "subckt", a |-> name, b |-> signal, p |-> port]

NetlistLines ==
    {BLine("comment", "", "")}
    \cup {BLine("model", n, "") : n \in ModelNames}
    \cup {BLine("end", "", "")}
    \cup {BLine("inputs", "a", "")}
    \cup {BLine("outputs", "y", "")}
    \cup {BLine("names", "a", "y")}
    \cup {BLine("latch", "y", "q")}
    \cup {SubcktLine("ram", "data_out[0]", "q")}
    \cup {BLine("conn", "a", "y")}
    \cup {BLine("attr", "src", "f")}
    \cup {BLine("cname", "i1", "")}
    \cup {BLine("other", "", "")}

\* BlifModel.__init__
BlifModel(name) ==
    [name |-> name, inputs |-> << >>, outputs |-> << >>, names |-> << >>,
     latches |-> << >>, subckts |-> << >>, conns |-> << >>]

\* an OrderedDict is a sequence of [key, val]; d[key] = val
DictPos(d, key) == {i \in 1..Len(d) : d[i].key = key}
DictSet(d, key, val) ==
    IF DictPos(d, key) # {}
    THEN [d EXCEPT ![CHOOSE i \in DictPos(d, key) : TRUE].val = val]
    ELSE Append(d, [key |-> key, val |-> val])
DictIndex(d, key) == CHOOSE i \in 1..Len(d) : d[i].key = key

\* the block dictionaries built at lines 258-262, 267-269 and 274-287
NamesBlock(line) ==
    [pins |-> << [key |-> "in[0]", val |-> line.a],
                 [key |-> "out[0]", val |-> line.b] >>,
     src |-> None, inst |-> None]
LatchBlock(line) == [D |-> line.a, Q |-> line.b, src |-> None, inst |-> None]
\* a port without an index is made a bus (lines 280-281); BusPorts are
\* the ports written with one
BusPorts == {"data_out[0]"}
BusPin(port) == IF port \in BusPorts THEN port ELSE port \o "[0]"
SubcktBlock(line) ==
    [name |-> line.a,
     params |-> << [key |-> line.b, val |-> << BusPin(line.p) >>] >>,
     src |-> None, inst |-> None]

\* model = None after the model was appended (line 245)
ModelAfterEnd_Keep(m) == m
ModelAfterEnd(m) == None

\* lines 248-306 on the model object m (identity id); returns the new model
\* object and the new block cursor
ScanStatement(line, id, m, blk) ==
    CASE line.k = "inputs" ->
           [m |-> [m EXCEPT !.inputs = << line.a >>], blk |-> blk]
      [] line.k = "outputs" ->
           [m |-> [m EXCEPT !.outputs = << line.a >>], blk |-> blk]
      [] line.k = "names" ->
           LET t == DictSet(m.names, line.b, NamesBlock(line))
           IN [m |-> [m EXCEPT !.names = t],
               blk |-> Some(<< id, "names", DictIndex(t, line.b) >>)]
      [] line.k = "latch" ->
           LET t == DictSet(m.latches, line.b, LatchBlock(line))
           IN [m |-> [m EXCEPT !.latches = t],
               blk |-> Some(<< id, "latches", DictIndex(t, line.b) >>)]
      [] line.k = "subckt" ->
           LET t == Append(m.subckts, [key |-> "", val |-> SubcktBlock(line)])
           IN [m |-> [m EXCEPT !.subckts = t],
               blk |-> Some(<< id, "subckts", Len(t) >>)]
      [] line.k = "conn" ->
           [m |-> [m EXCEPT !.conns = DictSet(@, line.b, line.a)], blk |-> blk]
      [] OTHER -> [m |-> m, blk |-> blk]

\* block[name] = value / block['inst'] = name on the dictionary the cursor
\* refers to, whichever model holds it (lines 294-306)
Annotate(heap, blk, line) ==
    IF IsNone(blk) \/ line.k \notin {"attr", "cname"} THEN heap
    ELSE LET id == Val(blk)[1]
             tab == Val(blk)[2]
             idx == Val(blk)[3]
         IN IF line.k = "attr"
            THEN [heap EXCEPT ![id][tab][idx].val.src = Some(line.b)]
            ELSE [heap EXCEPT ![id][tab][idx].val.inst = Some(line.a)]

\* one iteration of the loop of BlifParser.parse (lines 234-306)
BlifScanLine(line) ==
    IF line.k = "comment"
    THEN UNCHANGED << bl_heap, bl_model, bl_block, bl_models >>
    ELSE LET heap1 == IF line.k = "model"
                      THEN Append(bl_heap, BlifModel(line.a)) ELSE bl_heap
             model1 == IF line.k = "model" THEN Some(Len(heap1)) ELSE bl_model
         IN IF line.k = "end"
            THEN /\ bl_models' = Append(bl_models, model1)
                 /\ bl_model' = ModelAfterEnd(model1)
                 /\ UNCHANGED << bl_heap, bl_block >>
            ELSE IF IsNone(model1)
            THEN UNCHANGED << bl_heap, bl_model, bl_block, bl_models >>
            ELSE LET id == Val(model1)
                     r == ScanStatement(line, id, heap1[id], bl_block)
                     heap2 == [heap1 EXCEPT ![id] = r.m]
                 IN /\ bl_heap' = Annotate(heap2, r.blk, line)
                    /\ bl_block' = r.blk
                    /\ bl_model' = model1
                    /\ UNCHANGED bl_models

BlifReadLine ==
    /\ bl_pc = "scan"
    /\ bl_nread < MaxBlifLines
    /\ \E line \in NetlistLines :
          /\ BlifScanLine(line)
          /\ bl_open' = IF line.k = "model" THEN TRUE
                        ELSE IF line.k = "end" THEN FALSE ELSE bl_open
          /\ bl_end_log' =
                IF line.k = "end"
                THEN Append(bl_end_log,
                            IF bl_open THEN Some(Len(bl_heap)) ELSE None)
                ELSE bl_end_log
    /\ bl_nread' = bl_nread + 1
    /\ UNCHANGED << bl_pc, tvars, fvars, rvars, pvars >>

BlifEndOfFile ==
    /\ bl_pc = "scan"
    /\ bl_pc' = "done"
    /\ UNCHANGED << bl_heap, bl_model, bl_block, bl_models, bl_nread,
                    bl_open, bl_end_log, tvars, fvars, rvars, pvars >>

\* BlifParser.__init__ and the first lines of parse()
InitBlif ==
    /\ bl_pc = "scan"
    /\ bl_heap = << >>
    /\ bl_model = None
    /\ bl_block = None
    /\ bl_models = << >>
    /\ bl_nread = 0
    /\ bl_open = FALSE
    /\ bl_end_log = << >>
    \* the other components are not in use
    /\ rt_pc = "idle"
    /\ nb_paths = None
    /\ arg_nb_paths = None
    /\ precision = DefaultPrecision
    /\ path = NewPath
    /\ t_incr = 0
    /\ token = FALSE
    /\ paths = << >>
    /\ groups = << >>
    /\ stats = None
    /\ nread = 0
    /\ slack_log = << >>
    /\ last_line = None
    /\ net = << >>
    /\ place = << >>
    /\ lut = << >>
    /\ blif = None
    /\ fu_pc = "idle"
    /\ fu_call = [op |-> "none"]
    /\ workers = << >>
    /\ route_net = << >>
    /\ route_call = [op |-> "none"]
    /\ bp_rules = << >>
    /\ bp_results = << >>
    /\ bp_scanned = << >>
    /\ bp_stored = << >>

NextBlif == BlifReadLine \/ BlifEndOfFile

SpecBlif == InitBlif /\ [][NextBlif]_vars

\* ------------------------------------------------------------------------
\* PBLocator and PathBuilder (path_builder.py).  A name is the sequence of
\* its dot-separated segments: <<"s", "o">> stands for "s.o".
\* ------------------------------------------------------------------------
Range(f) == {f[i] : i \in DOMAIN f}

RECURSIVE SeqsUpTo(_, _)
SeqsUpTo(S, n) ==
    IF n = 0 THEN {<< >>}
    ELSE LET shorter == SeqsUpTo(S, n - 1)
         IN shorter \cup {Append(q, e) : q \in shorter, e \in S}

\* <block name=... instance=...> elements of the .net file
Node(name, kids) == [name |-> name, kids |-> kids]
Leaf(name) == Node(name, << >>)
KidLists ==
    {<< >>,
     << Leaf(<<"s">>) >>,
     << Node(<<"open">>, << Leaf(<<"u">>) >>) >>,
     << Node(<<"u">>, << Leaf(<<"s">>) >>), Leaf(<<"s">>) >>}

TopBlock(name, pb_id, kids) == [name |-> name, pb_id |-> pb_id, kids |-> kids]
Hierarchies ==
    {<< TopBlock(<<"b1">>, "0", k1), TopBlock(<<"b2">>, "1", k2) >> :
        k1 \in KidLists, k2 \in KidLists}

\* the coordinate table of the .place file, read by get_coordinates
Placements ==
    {[b \in {<<"b1">>, <<"b2">>} |-> IF b = <<"b1">> THEN <<1, 1, 0>> ELSE c] :
        c \in {<<1, 1, 1>>, <<2, 3, 0>>}}
GetCoordinates(pl, bname) == pl[bname]

\* PBLocator._find_block_names: the names of the sub-blocks of parent,
\* added to the list 'names'; kids is parent.findall('block')
RECURSIVE FindBlockNames(_, _)
FindBlockNames(kids, names) ==
    IF kids = << >> THEN names
    ELSE LET subb == Head(kids)
         IN IF subb.name = <<"open">>
            THEN FindBlockNames(Tail(kids), names)
            ELSE LET added == IF subb.name \in Range(names) THEN names
                              ELSE Append(names, subb.name)
                 IN FindBlockNames(Tail(kids),
                                   FindBlockNames(subb.kids, added))

\* PBLocator.create_lut
CreateLut(n, pl) ==
    [i \in 1..Len(n) |->
        LET block == n[i]
            xy == GetCoordinates(pl, block.name)
        IN [bnames |-> FindBlockNames(block.kids, << block.name >>),
            id_coords |-> [pb_id |-> block.pb_id, x |-> xy[1], y |-> xy[2],
                           pb_coords |-> None]]]

\* '.'.join(point_name.split('.')[:-1])
StripPin(point_name) ==
    IF Len(point_name) = 0 THEN << >>
    ELSE SubSeq(point_name, 1, Len(point_name) - 1)

\* PBLocator.get_id_coords: the position in the LUT of the dictionary it
\* returns, 0 when it returns None
LutHits(l, point_name) ==
    {i \in 1..Len(l) : StripPin(point_name) \in Range(l[i].bnames)}
Min(S) == CHOOSE m \in S : \A o \in S : m <= o
Max(S) == CHOOSE m \in S : \A o \in S : m >= o
GetIdCoordsIndex_Last(l, point_name) ==
    IF LutHits(l, point_name) = {} THEN 0 ELSE Max(LutHits(l, point_name))
GetIdCoordsIndex(l, point_name) ==
    IF LutHits(l, point_name) = {} THEN 0 ELSE Min(LutHits(l, point_name))
GetIdCoords(l, point_name) ==
    IF GetIdCoordsIndex(l, point_name) = 0 THEN None
    ELSE Some(l[GetIdCoordsIndex(l, point_name)].id_coords)

\* the points of the Paths handed to PathBuilder
PathPoint(name, node_type, incr) ==
    [point |-> name, node_type |-> node_type, t_incr |-> incr, t_sum |-> 0,
     pb_id |-> None, x |-> None, y |-> None, pb_coords |-> None]
ReportPoints ==
    {PathPoint(<<"s", "out[0]">>, ".names", 5),
     PathPoint(<<"u", "data_out[0]">>, "dpram", 10),
     PathPoint(<<"zz", "Q[0]">>, ".latch", 5)}

\* the cumulative delay column of a report
RECURSIVE Cumulate(_, _)
Cumulate(pts, sum) ==
    IF pts = << >> THEN << >>
    ELSE << [Head(pts) EXCEPT !.t_sum = sum + Head(pts).t_incr] >>
         \o Cumulate(Tail(pts), sum + Head(pts).t_incr)

InputPaths ==
    {[id |-> 1, startpoint |-> pts[1].point, endpoint |-> pts[Len(pts)].point,
      type |-> "setup", arrival_time |-> 10, required_time |-> 20,
      slack_time |-> 5, points |-> Cumulate(pts, 0)] :
        pts \in SeqsUpTo(ReportPoints, MaxPathLen) \ {<< >>}}

\* the names asked of the locator
QueryNames ==
    {pt.point : pt \in ReportPoints}
    \cup {<<"b1", "o">>, <<"b2", "o">>, <<"open", "o">>, <<"s">>}

\* lines 173-174 of get_block_place
WithPbCoords_Packed(ic) ==
    [ic EXCEPT !.pb_coords = Some(<< ic.x, ic.y >>), !.x = 10 * ic.x + ic.y]
WithPbCoords_Shifted(ic) ==
    [ic EXCEPT !.pb_coords = Some(<< ic.x, ic.y >>), !.y = ic.y + 1]
WithPbCoords(ic) == [ic EXCEPT !.pb_coords = Some(<< ic.x, ic.y >>)]
PointUpdate(pt, ic) ==
    [pt EXCEPT !.pb_id = Some(ic.pb_id), !.x = Some(ic.x), !.y = Some(ic.y),
               !.pb_coords = ic.pb_coords]

\* the loop of get_block_place (lines 171-174) from point i on: the points
\* and the LUT as it leaves them, and the exception it raises, if any
RECURSIVE PlaceLoop(_, _, _)
PlaceLoop(pts, i, l) ==
    IF i > Len(pts) THEN [points |-> pts, lut |-> l, raised |-> None]
    ELSE LET idx == GetIdCoordsIndex(l, pts[i].point)
         IN IF idx = 0
            THEN [points |-> pts, lut |-> l,
                  raised |-> Some([type |-> "TypeError", point |-> None])]
            ELSE LET ic == WithPbCoords(l[idx].id_coords)
                 IN PlaceLoop([pts EXCEPT ![i] = PointUpdate(@, ic)], i + 1,
                              [l EXCEPT ![idx].id_coords = ic])

\* ------------------------------------------------------------------------
\* Queries on the parsed netlist (blif_parser.py:52-134 and 308-332).  A
\* signal name is a sequence of fragments, as a point name is.
\* ------------------------------------------------------------------------
\* _split_point
SplitPoint(point_name) ==
    [output |-> StripPin(point_name),
     pin |-> IF Len(point_name) = 0 THEN "" ELSE point_name[Len(point_name)]]

DictHas(d, key) == DictPos(d, key) # {}
DictVal(d, key) == d[DictIndex(d, key)].val

\* BlifModel.get_pin_names
GetPinNames(m, point_name) ==
    LET sp == SplitPoint(point_name)
    IN IF ~DictHas(m.names, sp.output) THEN None
       ELSE LET pins == DictVal(m.names, sp.output).pins
            IN IF DictHas(pins, sp.pin) THEN Some(DictVal(pins, sp.pin))
               ELSE None

\* the keys of a latch dictionary: the pins, and what .attr and .cname added
LatchKey(block, pin) ==
    CASE pin = "D[0]" -> Some(block.D)
      [] pin = "Q[0]" -> Some(block.Q)
      [] pin = "src"  -> block.src
      [] pin = "inst" -> block.inst
      [] OTHER        -> None

\* BlifModel.get_pin_latch
GetPinLatch(m, point_name) ==
    LET sp == SplitPoint(point_name)
    IN IF ~DictHas(m.latches, sp.output) THEN None
       ELSE LatchKey(DictVal(m.latches, sp.output), sp.pin)

\* BlifModel._get_pin_subckt: the first signal one of whose pins is pin_name
GetPinOfSubckt(subckt, pin_name) ==
    LET hits == {i \in 1..Len(subckt.params) :
                    pin_name \in Range(subckt.params[i].val)}
    IN IF hits = {} THEN None ELSE Some(subckt.params[Min(hits)].key)

\* BlifModel.get_pin_subckt: decided by the first sub-circuit one of whose
\* signals is the object name
GetPinSubckt(m, point_name) ==
    LET sp == SplitPoint(point_name)
        hits == {i \in 1..Len(m.subckts) :
                    DictHas(m.subckts[i].val.params, sp.output)}
    IN IF hits = {} THEN None
       ELSE GetPinOfSubckt(m.subckts[Min(hits)].val, sp.pin)

GetPinBy(m, point_name, element_type) ==
    CASE element_type = "names"  -> GetPinNames(m, point_name)
      [] element_type = "latch"  -> GetPinLatch(m, point_name)
      [] element_type = "subckt" -> GetPinSubckt(m, point_name)

\* the order of the loop of line 109
LookupOrder_SubcktFirst == << "subckt", "latch", "names" >>
LookupOrder == << "names", "latch", "subckt" >>

\* BlifModel.get_pin
BlifModelGetPin(m, point_name, element_type) ==
    IF element_type \in {"names", "latch", "subckt"}
    THEN GetPinBy(m, point_name, element_type)
    ELSE LET found == {i \in DOMAIN LookupOrder :
                         ~IsNone(GetPinBy(m, point_name, LookupOrder[i]))}
         IN IF found = {} THEN None
            ELSE GetPinBy(m, point_name, LookupOrder[Min(found)])

\* BlifModel.get_instance
BlifModelGetInstance(m, point_name) ==
    LET sp == SplitPoint(point_name)
        hits == {i \in 1..Len(m.subckts) :
                    /\ ~IsNone(m.subckts[i].val.inst)
                    /\ DictHas(m.subckts[i].val.params, sp.output)
                    /\ ~IsNone(GetPinOfSubckt(m.subckts[i].val, sp.pin))}
    IN IF hits = {} THEN None ELSE m.subckts[Min(hits)].val.inst

\* BlifParser.get_pin: the first model that knows the point; an entry None
\* of the list has no method get_pin
BlifParserGetPin(models, point_name, element_type) ==
    LET stop == {i \in DOMAIN models :
                    \/ IsNone(models[i])
                    \/ ~IsNone(BlifModelGetPin(Val(models[i]), point_name,
                                               element_type))}
    IN IF stop = {} THEN [raised |-> None, ret |-> None]
       ELSE IF IsNone(models[Min(stop)])
       THEN [raised |-> Some("AttributeError"), ret |-> None]
       ELSE [raised |-> None,
             ret |-> BlifModelGetPin(Val(models[Min(stop)]), point_name,
                                     element_type)]

\* BlifParser.get_instance
BlifParserGetInstance(models, point_name) ==
    LET stop == {i \in DOMAIN models :
                    \/ IsNone(models[i])
                    \/ ~IsNone(BlifModelGetInstance(Val(models[i]),
                                                    point_name))}
    IN IF stop = {} THEN [raised |-> None, ret |-> None]
       ELSE IF IsNone(models[Min(stop)])
       THEN [raised |-> Some("AttributeError"), ret |-> None]
       ELSE [raised |-> None,
             ret |-> BlifModelGetInstance(Val(models[Min(stop)]), point_name)]

\* pb_type.startswith('.') and pb_type[1:]
StartsWithDot(node_type) ==
    node_type \in {".names", ".latch", ".input", ".output"}
ElementType(node_type) ==
    CASE node_type = ".names"  -> "names"
      [] node_type = ".latch"  -> "latch"
      [] node_type = ".input"  -> "input"
      [] node_type = ".output" -> "output"
      [] OTHER                 -> node_type

\* the fragments removed at lines 144-149
OptimizerWords == {"$abc", "$auto", "$flatten", "\\", "$aiger1", "$1"}
CleanName(name) == SelectSeq(name, LAMBDA w : w \notin OptimizerWords)

\* _get_instance_name: what it returns, or the exception it raises
GetInstanceName_Stripped(b, pt) ==
    [raised |-> None, ret |-> Some(StripPin(pt.point))]
GetInstanceName(b, pt) ==
    IF IsNone(b) THEN [raised |-> None, ret |-> Some(pt.point)]
    ELSE IF StartsWithDot(pt.node_type)
    THEN IF pt.node_type = ".output"
         THEN [raised |-> None, ret |-> Some(CleanName(StripPin(pt.point)))]
         ELSE IF pt.node_type = ".input"
         THEN [raised |-> None,
               ret |-> Some(CleanName(<< "in:" >> \o StripPin(pt.point)))]
         ELSE LET r == BlifParserGetPin(Val(b), pt.point,
                                        ElementType(pt.node_type))
              IN IF ~IsNone(r.raised) THEN r
                 \* "$techmap" in None raises a TypeError
                 ELSE IF IsNone(r.ret)
                 THEN [raised |-> Some("TypeError"), ret |-> None]
                 ELSE IF "$techmap" \in Range(Val(r.ret))
                 THEN [raised |-> None,
                       ret |-> Some(CleanName(StripPin(pt.point)))]
                 ELSE [raised |-> None, ret |-> Some(CleanName(Val(r.ret)))]
    ELSE LET r == BlifParserGetInstance(Val(b), pt.point)
         IN IF ~IsNone(r.raised) THEN r
            ELSE IF IsNone(r.ret)
            THEN [raised |-> None, ret |-> Some(CleanName(<< pt.node_type >>))]
            ELSE [raised |-> None, ret |-> Some(CleanName(Val(r.ret)))]

\* _get_pb_name
PbTypes == {".names", ".latch", ".input", ".output"}
ShortType(node_type) ==
    CASE node_type = ".names"  -> "lut"
      [] node_type = ".latch"  -> "ff"
      [] node_type = ".input"  -> "in"
      [] node_type = ".output" -> "out"
      [] OTHER                 -> node_type
GetPbName(pt) == << ShortType(pt.node_type), Val(pt.pb_id) >>

RECURSIVE SumSeq(_)
SumSeq(q) == IF q = << >> THEN 0 ELSE Head(q) + SumSeq(Tail(q))

\* prev_pb_id when the loop of get_statistics reaches point i (lines 185,
\* 194): the pb_id of the point before it
PrevPbId_Unset(pts, i) == IF i = 2 THEN None ELSE pts[i - 1].pb_id
PrevPbId(pts, i) == pts[i - 1].pb_id

\* line 198: nb_pbs -= 1 if nb_pbs >= 1 else 0
DecrementNbPbs_Always(nb) == nb - 1
DecrementNbPbs(nb) == IF nb >= 1 THEN nb - 1 ELSE nb

\* lines 190 and 192: the increments of the points whose position is in S,
\* added up
Accrued_Cumulative(pts, S) ==
    SumSeq([i \in 1..Len(pts) |-> IF i \in S THEN pts[i].t_sum ELSE 0])
Accrued(pts, S) ==
    SumSeq([i \in 1..Len(pts) |-> IF i \in S THEN pts[i].t_incr ELSE 0])

\* lines 186, 196 and 199: the positions of the points whose node type is
\* kept, those of self._path[1:] but the last
SubcktPoints(pts) == 2..(Len(pts) - 1)

\* get_statistics
GetStatistics(pts, prec) ==
    LET n == Len(pts)
        diff == {i \in 2..n : pts[i].pb_id # PrevPbId(pts, i)}
        same == (2..n) \ diff
        net_time == Accrued(pts, diff)
        pb_time == Accrued(pts, same)
        nb_pbs == Cardinality(diff)
    IN [subckts |-> {pts[i].node_type : i \in
                        {j \in SubcktPoints(pts) :
                            ~StartsWithDot(pts[j].node_type)}},
        nb_points |-> IF n >= 2 THEN n - 2 ELSE 0,
        nb_pbs |-> DecrementNbPbs(nb_pbs),
        path_time |-> FormatFloat(pts[n].t_sum - pts[1].t_sum, prec),
        net_time |-> FormatFloat(net_time, prec),
        pb_time |-> FormatFloat(pb_time, prec)]

\* lines 217-219: the width and the height between point i and the point
\* before it
Hop_Width(pts, i) == Abs(Val(pts[i - 1].x) - Val(pts[i].x))
Hop(pts, i) ==
    Abs(Val(pts[i - 1].x) - Val(pts[i].x))
    + Abs(Val(pts[i - 1].y) - Val(pts[i].y))

\* get_distances
GetDistances(pts) ==
    LET n == Len(pts)
        X(i) == Val(pts[i].x)
        Y(i) == Val(pts[i].y)
        mw == Abs(X(1) - X(n))
        mh == Abs(Y(1) - Y(n))
    IN [start_coords |-> pts[1].pb_coords,
        end_coords |-> pts[n].pb_coords,
        euclidean_sq |-> mw * mw + mh * mh,
        manhattan_dist |-> mw + mh,
        pb2pb_dist |-> SumSeq([i \in 1..n |->
                          IF i = 1 THEN 0 ELSE Hop(pts, i)])]

\* lines 176-177 of get_block_place: the exception the naming of the start
\* or of the end instance raises, if any
InstanceRaised(b, pts) ==
    LET si == GetInstanceName(b, pts[1])
        ei == GetInstanceName(b, pts[Len(pts)])
    IN IF ~IsNone(si.raised)
       THEN Some([type |-> Val(si.raised), point |-> None])
       ELSE IF ~IsNone(ei.raised)
       THEN Some([type |-> Val(ei.raised), point |-> None])
       ELSE None

\* PathBuilder.__init__ once get_block_place has gone through every point
BuildPath(p, pts, b) ==
    [id |-> p.id, start_point |-> p.startpoint, end_point |-> p.endpoint,
     type |-> p.type,
     slack_time |-> FormatFloat(p.slack_time, DefaultPrecision),
     arrival_time |-> FormatFloat(p.arrival_time, DefaultPrecision),
     required_time |-> FormatFloat(p.required_time, DefaultPrecision),
     start_inst |-> Val(GetInstanceName(b, pts[1]).ret),
     end_inst |-> Val(GetInstanceName(b, pts[Len(pts)]).ret),
     start_pb |-> GetPbName(pts[1]),
     end_pb |-> GetPbName(pts[Len(pts)]),
     stat |-> GetStatistics(pts, DefaultPrecision),
     dist |-> GetDistances(pts)]

\* pb_loc.get_id_coords(point_name), called on its own
Resolve ==
    /\ fu_pc = "run"
    /\ \E q \in QueryNames :
          fu_call' = [op |-> "resolve", arg |-> q, ret |-> GetIdCoords(lut, q)]
    /\ UNCHANGED << net, place, lut, blif, fu_pc, workers, tvars, bvars, rvars, pvars >>

\* path_ext = PathBuilder(path, blif, pbloc) in the loop of main()
\* (report_place_timing.py:171-175, blif being None there); no handler
\* catches what it raises
Enrich ==
    /\ fu_pc = "run"
    /\ \E p \in InputPaths :
          LET r == PlaceLoop(p.points, 1, lut)
              raised == IF ~IsNone(r.raised) THEN r.raised
                        ELSE InstanceRaised(blif, r.points)
          IN /\ lut' = r.lut
             /\ IF IsNone(raised)
                THEN /\ fu_call' = [op |-> "enrich", arg |-> p,
                                    path |-> [p EXCEPT !.points = r.points],
                                    raised |-> None,
                                    ret |-> Some(BuildPath(p, r.points, blif))]
                     /\ fu_pc' = "run"
                ELSE /\ fu_call' = [op |-> "enrich", arg |-> p,
                                    path |-> [p EXCEPT !.points = r.points],
                                    raised |-> raised,
                                    ret |-> None]
                     /\ fu_pc' = "raised"
    /\ UNCHANGED << net, place, blif, workers, tvars, bvars, rvars, pvars >>

\* manhattan_dist / pb2pb_dist on a column of the DataFrame: the quotient
\* of two numbers, not-a-number for 0 / 0, infinite for n / 0
RatioDist(manhattan_dist, pb2pb_dist) ==
    IF pb2pb_dist # 0
    THEN [kind |-> "number", num |-> manhattan_dist, den |-> pb2pb_dist]
    ELSE IF manhattan_dist = 0
    THEN [kind |-> "nan", num |-> 0, den |-> 0]
    ELSE [kind |-> "inf", num |-> manhattan_dist, den |-> 0]

\* PathFormatter.extract_statistics on the row exported for the latest
\* EnrichedPath
ExtractStatistics ==
    /\ fu_pc = "run"
    /\ fu_call.op = "enrich"
    /\ ~IsNone(fu_call.ret)
    /\ LET e == Val(fu_call.ret)
       IN fu_call' = [op |-> "format", arg |-> e,
                      ret |-> [ratio_dist |->
                                  RatioDist(e.dist.manhattan_dist,
                                            e.dist.pb2pb_dist)]]
    /\ UNCHANGED << net, place, lut, blif, fu_pc, workers, tvars, bvars, rvars, pvars >>

\* BlifParser.parse on the text ".model <name>", lines, ".end": the model
\* it appends
RECURSIVE ParseLines(_, _, _)
ParseLines(heap, blk, lines) ==
    IF lines = << >> THEN heap[1]
    ELSE LET r == ScanStatement(Head(lines), 1, heap[1], blk)
             heap1 == [heap EXCEPT ![1] = r.m]
         IN ParseLines(Annotate(heap1, r.blk, Head(lines)), r.blk, Tail(lines))
ParseModel(name, lines) == ParseLines(<< BlifModel(name) >>, None, lines)

\* the netlists handed to PathBuilder: one that declares every object of
\* the report points, one that declares the latch only
Netlists ==
    {<< Some(ParseModel("m1",
            << BLine("names", << "$abc", "a" >>, << "s" >>),
               BLine("latch", << "d" >>, << "zz" >>),
               SubcktLine(<< "dpram" >>, "data_out[0]", << "u" >>),
               BLine("cname", << "i1" >>, "") >>)) >>,
     << Some(ParseModel("m1",
            << BLine("latch", << "d" >>, << "zz" >>) >>)) >>}

\* VprNetParser, VprPlaceParser, PBLocator and, when a BLIF file is used,
\* BlifParser constructed (report_place_timing.py:158-161)
InitFusion ==
    /\ net \in Hierarchies
    /\ place \in Placements
    /\ lut = CreateLut(net, place)
    /\ blif \in {None} \cup {Some(n) : n \in Netlists}
    /\ fu_pc = "run"
    /\ fu_call = [op |-> "none"]
    /\ workers = << >>
    /\ route_net = << >>
    /\ route_call = [op |-> "none"]
    /\ bp_rules = << >>
    /\ bp_results = << >>
    /\ bp_scanned = << >>
    /\ bp_stored = << >>
    \* the other components are not in use
    /\ rt_pc = "idle"
    /\ nb_paths = None
    /\ arg_nb_paths = None
    /\ precision = DefaultPrecision
    /\ path = NewPath
    /\ t_incr = 0
    /\ token = FALSE
    /\ paths = << >>
    /\ groups = << >>
    /\ stats = None
    /\ nread = 0
    /\ slack_log = << >>
    /\ last_line = None
    /\ bl_pc = "idle"
    /\ bl_heap = << >>
    /\ bl_model = None
    /\ bl_block = None
    /\ bl_models = << >>
    /\ bl_nread = 0
    /\ bl_open = FALSE
    /\ bl_end_log = << >>

NextFusion == Resolve \/ Enrich \/ ExtractStatistics

SpecFusion == InitFusion /\ [][NextFusion]_vars

\* ------------------------------------------------------------------------
\* Queries on a parsed netlist: get_pin of a BlifModel and of the BlifParser
\* ------------------------------------------------------------------------
\* the statements of the queried models; y is the output of a logic
\* function and of a latch and a signal of a sub-circuit
NetlistStatements ==
    {BLine("names", << "a" >>, << "y" >>),
     BLine("latch", << "d" >>, << "y" >>),
     SubcktLine(<< "ram" >>, "in", << "y" >>),
     SubcktLine(<< "ram" >>, "data_out[0]", << "q" >>),
     BLine("cname", << "i1" >>, "")}

NetlistPoints ==
    {<< "y", "in[0]" >>, << "y", "out[0]" >>, << "y", "Q[0]" >>,
     << "q", "data_out[0]" >>, << "n", "in[0]" >>}

\* the element_type argument; "None" stands for the default None
ElementTypeArgs == {"None", "names", "latch", "subckt"}

\* model.get_pin(point_name, element_type) on a model of the list
GetPin ==
    /\ fu_pc = "query"
    /\ \E i \in DOMAIN Val(blif), pt \in NetlistPoints, et \in ElementTypeArgs :
          /\ ~IsNone(Val(blif)[i])
          /\ fu_call' = [op |-> "get_pin", model |-> Val(Val(blif)[i]),
                         arg |-> pt, element_type |-> et,
                         ret |-> BlifModelGetPin(Val(Val(blif)[i]), pt, et)]
    /\ UNCHANGED << net, place, lut, blif, fu_pc, workers, tvars, bvars, rvars, pvars >>

\* parser.get_pin(point_name, element_type)
ParserGetPin ==
    /\ fu_pc = "query"
    /\ \E pt \in NetlistPoints, et \in ElementTypeArgs :
          LET r == BlifParserGetPin(Val(blif), pt, et)
          IN fu_call' = [op |-> "parser_get_pin", arg |-> pt,
                         element_type |-> et, raised |-> r.raised,
                         ret |-> r.ret]
    /\ UNCHANGED << net, place, lut, blif, fu_pc, workers, tvars, bvars, rvars, pvars >>

\* a BlifParser constructed on a netlist of one model, possibly after an
\* .end line that closes no model
InitNetlist ==
    /\ blif \in {Some(lead \o << Some(ParseModel("m1", lines)) >>) :
                    lead \in {<< >>, << None >>},
                    lines \in SeqsUpTo(NetlistStatements, MaxStmts)}
    /\ fu_pc = "query"
    /\ fu_call = [op |-> "none"]
    /\ workers = << >>
    /\ route_net = << >>
    /\ route_call = [op |-> "none"]
    /\ bp_rules = << >>
    /\ bp_results = << >>
    /\ bp_scanned = << >>
    /\ bp_stored = << >>
    \* the other components are not in use
    /\ net = << >>
    /\ place = << >>
    /\ lut = << >>
    /\ rt_pc = "idle"
    /\ nb_paths = None
    /\ arg_nb_paths = None
    /\ precision = DefaultPrecision
    /\ path = NewPath
    /\ t_incr = 0
    /\ token = FALSE
    /\ paths = << >>
    /\ groups = << >>
    /\ stats = None
    /\ nread = 0
    /\ slack_log = << >>
    /\ last_line = None
    /\ bl_pc = "idle"
    /\ bl_heap = << >>
    /\ bl_model = None
    /\ bl_block = None
    /\ bl_models = << >>
    /\ bl_nread = 0
    /\ bl_open = FALSE
    /\ bl_end_log = << >>

NextNetlist == GetPin \/ ParserGetPin

SpecNetlist == InitNetlist /\ [][NextNetlist]_vars

\* ------------------------------------------------------------------------
\* A pool of workers, each constructing a PathBuilder on a Path of its own
\* against the one PBLocator.  A worker is pre-empted between the
\* statements of get_block_place that touch the shared LUT.
\* ------------------------------------------------------------------------
\* the Paths of the report handed to the pool, by the blocks of their points
PoolRoutes ==
    {<< "s" >>, << "s", "u" >>, << "u", "s" >>, << "u", "zz" >>,
     << "s", "u", "s" >>}
PoolPaths ==
    {p \in InputPaths :
        [i \in 1..Len(p.points) |-> p.points[i].point[1]] \in PoolRoutes}

\* a worker entering PathBuilder.__init__ (lines 75-109); 'met' is history:
\* the worker wrote to an entry of the LUT that another worker held between
\* its own write and its read
NewWorker(p) ==
    [arg |-> p, pts |-> p.points, i |-> 1, pc |-> "locate", idx |-> 0,
     met |-> FALSE, raised |-> None, ret |-> None]

\* lines 172-173 of get_block_place for point i of worker w: the look-up
\* and the write of pb_coords into the dictionary of the LUT
Locate ==
    /\ fu_pc = "pool"
    /\ \E w \in DOMAIN workers :
          /\ workers[w].pc = "locate"
          /\ LET wk == workers[w]
                 idx == GetIdCoordsIndex(lut, wk.pts[wk.i].point)
             IN IF idx = 0
                THEN /\ workers' = [workers EXCEPT
                           ![w].pc = "raised",
                           ![w].raised = Some([type |-> "TypeError",
                                               point |-> None])]
                     /\ lut' = lut
                ELSE /\ lut' = [lut EXCEPT ![idx].id_coords = WithPbCoords(@)]
                     /\ workers' = [workers EXCEPT
                           ![w].pc = "update",
                           ![w].idx = idx,
                           ![w].met = @ \/ \E o \in DOMAIN workers :
                                               /\ o # w
                                               /\ workers[o].pc = "update"
                                               /\ workers[o].idx = idx]
    /\ UNCHANGED << net, place, blif, fu_pc, fu_call, tvars, bvars, rvars, pvars >>

\* line 174 of get_block_place: point.update(id_coords), reading the
\* dictionary of the LUT as it is by now
Update ==
    /\ fu_pc = "pool"
    /\ \E w \in DOMAIN workers :
          /\ workers[w].pc = "update"
          /\ LET wk == workers[w]
             IN workers' = [workers EXCEPT
                   ![w].pts[wk.i] = PointUpdate(@, lut[wk.idx].id_coords),
                   ![w].i = wk.i + 1,
                   ![w].pc = IF wk.i + 1 > Len(wk.pts) THEN "finish"
                             ELSE "locate"]
    /\ UNCHANGED << net, place, lut, blif, fu_pc, fu_call, tvars, bvars, rvars, pvars >>

\* lines 176-179 of get_block_place, get_statistics and get_distances
Finish ==
    /\ fu_pc = "pool"
    /\ \E w \in DOMAIN workers :
          /\ workers[w].pc = "finish"
          /\ LET wk == workers[w]
                 raised == InstanceRaised(blif, wk.pts)
             IN workers' =
                   IF IsNone(raised)
                   THEN [workers EXCEPT
                           ![w].pc = "done",
                           ![w].ret = Some(BuildPath(wk.arg, wk.pts, blif))]
                   ELSE [workers EXCEPT ![w].pc = "raised",
                                        ![w].raised = raised]
    /\ UNCHANGED << net, place, lut, blif, fu_pc, fu_call, tvars, bvars, rvars, pvars >>

\* the parsers and the locator constructed as in main(), no BLIF file being
\* used there (report_place_timing.py:158-175), and two Paths handed out
InitPool ==
    /\ net \in Hierarchies
    /\ place \in Placements
    /\ lut = CreateLut(net, place)
    /\ blif = None
    /\ fu_pc = "pool"
    /\ fu_call = [op |-> "none"]
    /\ workers \in {<< NewWorker(p1), NewWorker(p2) >> :
                       p1 \in PoolPaths, p2 \in PoolPaths}
    /\ route_net = << >>
    /\ route_call = [op |-> "none"]
    /\ bp_rules = << >>
    /\ bp_results = << >>
    /\ bp_scanned = << >>
    /\ bp_stored = << >>
    \* the other components are not in use
    /\ rt_pc = "idle"
    /\ nb_paths = None
    /\ arg_nb_paths = None
    /\ precision = DefaultPrecision
    /\ path = NewPath
    /\ t_incr = 0
    /\ token = FALSE
    /\ paths = << >>
    /\ groups = << >>
    /\ stats = None
    /\ nread = 0
    /\ slack_log = << >>
    /\ last_line = None
    /\ bl_pc = "idle"
    /\ bl_heap = << >>
    /\ bl_model = None
    /\ bl_block = None
    /\ bl_models = << >>
    /\ bl_nread = 0
    /\ bl_open = FALSE
    /\ bl_end_log = << >>

NextPool == Locate \/ Update \/ Finish

SpecPool == InitPool /\ [][NextPool]_vars

\* ------------------------------------------------------------------------
\* Net.get_route (vpr_route_parser.py:36-84)
\* ------------------------------------------------------------------------
MaxNodes == 5

\* a node of the routing graph as _parse stores it (lines 286-292); the
\* pin name is there for the IPIN and OPIN lines only
RouteNode(node_id, node_type, x, y, pin_name) ==
    [node_id |-> node_id, node_type |-> node_type, x |-> x, y |-> y,
     pin_name |-> pin_name]

\* the nodes of the device the nets run over, by node id
RouteNodes ==
    << RouteNode(1, "opin", 1, 1, Some("O[1]")),
       RouteNode(2, "chanx", 1, 1, None),
       RouteNode(3, "ipin", 2, 1, Some("I[3]")),
       RouteNode(4, "ipin", 2, 2, Some("I[4]")),
       RouteNode(5, "source", 1, 1, None),
       RouteNode(6, "opin", 2, 1, Some("O[6]")) >>

\* the nets: lists of nodes of the device, a node being listed again where
\* a branch of the net starts from it
RouteNets ==
    {[i \in 1..Len(q) |-> RouteNodes[q[i]]] :
        q \in SeqsUpTo(DOMAIN RouteNodes, MaxNodes)}

StartCoords == {<< 1, 1 >>, << 2, 1 >>}
EndCoords == {<< 2, 1 >>, << 2, 2 >>}

\* lines 56-58: the node is the output pin at the start coordinates
IsStartPin(node, start) ==
    node.node_type = "opin" /\ node.x = start[1] /\ node.y = start[2]

\* lines 72-74: the node is the input pin at the end coordinates
IsEndPin_Column(node, end) ==
    node.node_type = "ipin" /\ node.x = end[1]
IsEndPin(node, end) ==
    node.node_type = "ipin" /\ node.x = end[1] /\ node.y = end[2]

\* lines 65-68: the lists cut before the earlier entry of node_id
PositionsOf(node_ids, node_id) ==
    {k \in 1..Len(node_ids) : node_ids[k] = node_id}
CutAt(q, node_ids, node_id) ==
    IF PositionsOf(node_ids, node_id) = {} THEN q
    ELSE SubSeq(q, 1, Min(PositionsOf(node_ids, node_id)) - 1)

\* lines 79-80: list.pop()
Pop_Keep(q) == q
Pop(q) == SubSeq(q, 1, Len(q) - 1)

\* the loop of get_route (lines 54-80) from node i on; st holds node_ids,
\* path, opin_name and ipin_name
RECURSIVE RouteLoop(_, _, _, _, _)
RouteLoop(nodes, i, st, start, end) ==
    IF i > Len(nodes) THEN st
    ELSE LET node == nodes[i]
             opin_name == IF IsStartPin(node, start) THEN node.pin_name
                          ELSE st.opin_name
             kept == node.node_type \in {"chanx", "chany", "ipin", "opin"}
             node_ids == IF kept
                         THEN Append(CutAt(st.node_ids, st.node_ids,
                                           node.node_id), node.node_id)
                         ELSE st.node_ids
             coords == IF kept
                       THEN Append(CutAt(st.path, st.node_ids, node.node_id),
                                   << node.x, node.y >>)
                       ELSE st.path
         IN IF IsNone(opin_name)
            THEN RouteLoop(nodes, i + 1, st, start, end)
            ELSE IF node.node_type # "ipin"
            THEN RouteLoop(nodes, i + 1,
                           [st EXCEPT !.node_ids = node_ids, !.path = coords,
                                      !.opin_name = opin_name], start, end)
            ELSE IF IsEndPin(node, end)
            THEN [node_ids |-> node_ids, path |-> coords,
                  opin_name |-> opin_name, ipin_name |-> node.pin_name]
            ELSE RouteLoop(nodes, i + 1,
                           [st EXCEPT !.node_ids = Pop(node_ids),
                                      !.path = Pop(coords),
                                      !.opin_name = opin_name], start, end)

\* Net.get_route: None, or the node ids, the path and the two pin names
GetRouteOf(nodes, start, end) ==
    LET st == RouteLoop(nodes, 1,
                        [node_ids |-> << >>, path |-> << >>,
                         opin_name |-> None, ipin_name |-> None], start, end)
    IN IF IsNone(st.opin_name) \/ IsNone(st.ipin_name) THEN None
       ELSE Some([node_ids |-> st.node_ids, path |-> st.path,
                  opin_name |-> Val(st.opin_name),
                  ipin_name |-> Val(st.ipin_name)])

\* net.get_route(start, end)
GetRoute ==
    /\ \E start \in StartCoords, end \in EndCoords :
          route_call' = [op |-> "get_route", start |-> start, end |-> end,
                         ret |-> GetRouteOf(route_net, start, end)]
    /\ UNCHANGED << route_net, tvars, bvars, fvars, pvars >>

\* a Net as VprRouteParser._parse leaves it
InitRoute ==
    /\ route_net \in RouteNets
    /\ route_call = [op |-> "none"]
    \* the other components are not in use
    /\ net = << >>
    /\ place = << >>
    /\ lut = << >>
    /\ blif = None
    /\ fu_pc = "idle"
    /\ fu_call = [op |-> "none"]
    /\ workers = << >>
    /\ bp_rules = << >>
    /\ bp_results = << >>
    /\ bp_scanned = << >>
    /\ bp_stored = << >>
    /\ rt_pc = "idle"
    /\ nb_paths = None
    /\ arg_nb_paths = None
    /\ precision = DefaultPrecision
    /\ path = NewPath
    /\ t_incr = 0
    /\ token = FALSE
    /\ paths = << >>
    /\ groups = << >>
    /\ stats = None
    /\ nread = 0
    /\ slack_log = << >>
    /\ last_line = None
    /\ bl_pc = "idle"
    /\ bl_heap = << >>
    /\ bl_model = None
    /\ bl_block = None
    /\ bl_models = << >>
    /\ bl_nread = 0
    /\ bl_open = FALSE
    /\ bl_end_log = << >>

NextRoute == GetRoute

SpecRoute == InitRoute /\ [][NextRoute]_vars

\* ------------------------------------------------------------------------
\* BaseParser (base_parser.py): single-line and multi-line rules.  A
\* trigger is a word and re.search(trigger, line) holds when the line has
\* the word; the value pattern of every rule captures the name and the
\* number of a line "<name> = <number>".
\* ------------------------------------------------------------------------
MaxLogLines == 4

\* the lines of a log: the trigger words a line has, and its name and
\* number when it has the form "<name> = <number>"
LogLine(words, kv) == [words |-> words, kv |-> kv]
LogLines ==
    {LogLine(w, kv) :
        w \in SUBSET {"S", "E"},
        kv \in {None, Some(<< "x", "1" >>), Some(<< "x", "2" >>)}}

\* add_multiline_regex_rule
MultilineRule(keyname, start_trig, end_trig) ==
    [key |-> keyname, start |-> start_trig, end |-> end_trig,
     token |-> FALSE]

\* re.search(rule['start'], line), re.search(rule['end'], line) and
\* re.search(rule['regex'], line)
StartSearch(rule, line) == rule.start \in line.words
EndSearch(rule, line) == rule.end \in line.words
RegexSearch(line) == line.kv

\* lines 80-83: the single-line rule of key "last", whose pattern captures
\* the number
SingleRules(res, line) ==
    IF IsNone(RegexSearch(line)) THEN res
    ELSE DictSet(res, << "last" >>, Val(RegexSearch(line))[2])

\* lines 87-88 and 91: the token of the rule once the end trigger has been
\* looked for, which decides whether the match of the line is stored
TokenAtCatch_StartFirst(rule, line) ==
    (rule.token /\ ~EndSearch(rule, line)) \/ StartSearch(rule, line)
TokenAtCatch(rule, line) == rule.token /\ ~EndSearch(rule, line)

\* lines 90-91: the rule stores the match of the line
Catches(rule, line) ==
    ~IsNone(RegexSearch(line)) /\ TokenAtCatch(rule, line)

\* lines 87-88 and 94-95: the token of the rule after the line
TokenAfter(rule, line) ==
    (rule.token /\ ~EndSearch(rule, line)) \/ StartSearch(rule, line)

\* lines 85-92 for the rules from position i on: self.results
RECURSIVE MultilineRules(_, _, _, _)
MultilineRules(rules, i, res, line) ==
    IF i > Len(rules) THEN res
    ELSE MultilineRules(rules, i + 1,
            IF Catches(rules[i], line)
            THEN DictSet(res, << rules[i].key, Val(RegexSearch(line))[1] >>,
                         Val(RegexSearch(line))[2])
            ELSE res,
            line)

\* one iteration of the loop of parse() (lines 77-95)
ScanLogLine ==
    /\ Len(bp_scanned) < MaxLogLines
    /\ bp_rules # << >>
    /\ \E line \in LogLines :
          /\ bp_results' = MultilineRules(bp_rules, 1,
                                          SingleRules(bp_results, line), line)
          /\ bp_rules' = [i \in DOMAIN bp_rules |->
                            [bp_rules[i] EXCEPT
                               !.token = TokenAfter(bp_rules[i], line)]]
          /\ bp_scanned' = Append(bp_scanned, line)
          /\ bp_stored' = Append(bp_stored,
                                 {i \in DOMAIN bp_rules :
                                     Catches(bp_rules[i], line)})
    /\ UNCHANGED << tvars, bvars, fvars, rvars >>

\* a BaseParser with two multi-line rules, the triggers of the second being
\* those of the first the other way round
InitBase ==
    /\ bp_rules = << MultilineRule("r1", "S", "E"),
                     MultilineRule("r2", "E", "S") >>
    /\ bp_results = << >>
    /\ bp_scanned = << >>
    /\ bp_stored = << >>
    \* the other components are not in use
    /\ route_net = << >>
    /\ route_call = [op |-> "none"]
    /\ net = << >>
    /\ place = << >>
    /\ lut = << >>
    /\ blif = None
    /\ fu_pc = "idle"
    /\ fu_call = [op |-> "none"]
    /\ workers = << >>
    /\ rt_pc = "idle"
    /\ nb_paths = None
    /\ arg_nb_paths = None
    /\ precision = DefaultPrecision
    /\ path = NewPath
    /\ t_incr = 0
    /\ token = FALSE
    /\ paths = << >>
    /\ groups = << >>
    /\ stats = None
    /\ nread = 0
    /\ slack_log = << >>
    /\ last_line = None
    /\ bl_pc = "idle"
    /\ bl_heap = << >>
    /\ bl_model = None
    /\ bl_block = None
    /\ bl_models = << >>
    /\ bl_nread = 0
    /\ bl_open = FALSE
    /\ bl_end_log = << >>

NextBase == ScanLogLine

SpecBase == InitBase /\ [][NextBase]_vars

\* ------------------------------------------------------------------------
\* Properties of the timing-report parser
\* ------------------------------------------------------------------------

\* C1: every Path in the result list of a constructed parser has at least
\* 2 points, whatever lines the report contains.
C1_AtLeastTwoPoints ==
    rt_pc = "done" => \A i \in 1..Len(paths) : Len(paths[i].points) >= 2

\* C2: for every Path in the result list that has points, the first point
\* is the declared startpoint and the last point is the declared endpoint.
C2_EndsAreDeclared ==
    rt_pc = "done" =>
        \A i \in 1..Len(paths) :
            LET p == paths[i] IN
            p.points # << >> =>
                /\ Some(p.points[1].point) = p.startpoint
                /\ Some(p.points[Len(p.points)].point) = p.endpoint

\* C3: with no maximum path id, the result list holds exactly one Path per
\* slack-time line scanned so far, in the order of the slack lines (the
\* k-th Path carries the value of the k-th slack line).
C3_OnePathPerSlackLine ==
    IsNone(arg_nb_paths) =>
        /\ Len(paths) = Len(slack_log)
        /\ \A i \in 1..Len(paths) : paths[i].slack_time = Some(slack_log[i])

C3_Witness ==
    /\ IsNone(arg_nb_paths)
    /\ Len(paths) = 2
    /\ paths[1].slack_time # paths[2].slack_time
    /\ rt_pc = "scan"
    /\ nread > 2

\* C4: with a maximum path id N, a finalized Path with id >= N is the last
\* element of the result list and ends the scan (no further line is read),
\* and every Path before the last one has an id < N.
C4_StopsAtMaxId ==
    ~IsNone(arg_nb_paths) =>
        \A i \in 1..Len(paths) :
            /\ (~IsNone(paths[i].id) /\ Val(paths[i].id) >= Val(arg_nb_paths))
                   => (i = Len(paths) /\ rt_pc # "scan"
                       /\ Len(slack_log) = Len(paths))
            /\ i < Len(paths)
                   => (~IsNone(paths[i].id)
                       /\ Val(paths[i].id) < Val(arg_nb_paths))

C4_Witness ==
    /\ arg_nb_paths = Some(2)
    /\ Len(paths) = 2
    /\ paths[1].id = Some(1)
    /\ paths[2].id = Some(2)
    /\ rt_pc \notin {"scan", "raised_break"}
    /\ nread < MaxLines

\* ------------------------------------------------------------------------
\* Properties of the netlist parser
\* ------------------------------------------------------------------------

IdXY(o) == IF IsNone(o) THEN None ELSE Some(<< Val(o).pb_id, Val(o).x, Val(o).y >>)

\* C6: at any moment, whatever lookups and enrichments ran before, resolving
\* a point name returns the (id, x, y) that resolving it against the newly
\* built locator returns; hence any two calls for one name agree.
C6_ResolveTwiceSame ==
    /\ \A q \in QueryNames :
          IdXY(GetIdCoords(lut, q)) = IdXY(GetIdCoords(CreateLut(net, place), q))
    /\ fu_call.op = "resolve" =>
          IdXY(fu_call.ret)
              = IdXY(GetIdCoords(CreateLut(net, place), fu_call.arg))

\* a lookup that returns a dictionary an earlier enrichment has written to
C6_Witness ==
    /\ fu_call.op = "resolve"
    /\ ~IsNone(fu_call.ret)
    /\ ~IsNone(Val(fu_call.ret).pb_coords)

\* the names of the blocks below a block: every descendant, or only those
\* reached without entering a block named "open"
RECURSIVE DescendantNames(_, _)
DescendantNames(kids, skip_open) ==
    UNION {IF skip_open /\ kids[i].name = <<"open">> THEN {}
           ELSE {kids[i].name} \cup DescendantNames(kids[i].kids, skip_open) :
           i \in DOMAIN kids}

FirstBlockNaming(q, skip_open) ==
    LET hits == {i \in DOMAIN net :
                    StripPin(q) \in {net[i].name}
                        \cup DescendantNames(net[i].kids, skip_open)}
    IN IF hits = {} THEN None
       ELSE LET b == net[Min(hits)]
            IN Some(<< b.pb_id, GetCoordinates(place, b.name)[1],
                       GetCoordinates(place, b.name)[2] >>)

\* C7 as stated: resolve(p) is the first top-level block whose own name or
\* one of whose descendants' names is p without its last segment, none when
\* there is no such block.
C7_FirstBlockOfAllDescendants ==
    \A q \in QueryNames :
        IdXY(GetIdCoords(lut, q)) = FirstBlockNaming(q, FALSE)

\* C7 amended: the name set of a block is its own name plus the names of
\* its descendants other than the blocks named "open" and the blocks below
\* them; resolve(p) is the first top-level block whose name set contains p
\* without its last segment, none when there is no such block.
C7_FirstBlockOfConnectedDescendants ==
    /\ \A q \in QueryNames :
          IdXY(GetIdCoords(lut, q)) = FirstBlockNaming(q, TRUE)
    /\ fu_call.op = "resolve" =>
          IdXY(fu_call.ret) = FirstBlockNaming(fu_call.arg, TRUE)

\* a lookup of a name that two top-level blocks hold: the first one wins
C7_Witness ==
    /\ fu_call.op = "resolve"
    /\ Cardinality(LutHits(lut, fu_call.arg)) = 2
    /\ ~IsNone(fu_call.ret)
    /\ Val(fu_call.ret).pb_id = net[1].pb_id

\* the points of a Path the locator cannot resolve
Unresolved(p) ==
    {i \in DOMAIN p.points : IsNone(GetIdCoords(lut, p.points[i].point))}

\* C8: when a point of the Path cannot be resolved, the construction fails
\* with an error that names the first such point, and the caller's loop
\* goes on with the next path.
C8_UnresolvedPointIsReported ==
    (fu_call.op = "enrich" /\ Unresolved(fu_call.arg) # {}) =>
        /\ ~IsNone(fu_call.raised)
        /\ Val(fu_call.raised).point
              = Some(fu_call.arg.points[Min(Unresolved(fu_call.arg))].point)
        /\ fu_pc = "run"

\* C9: an enrichment leaves the entries of the LUT and the point records of
\* the input Path as they were.
C9_EnrichWritesOnlyItsResult ==
    /\ lut = CreateLut(net, place)
    /\ fu_call.op = "enrich" => fu_call.path = fu_call.arg

\* C10: ratio_dist is the number 1 when the start and end coordinates are
\* the same, a number >= 0 otherwise, and never the outcome of a division
\* by zero.
C10_RatioIsOneWhenEndsCoincide ==
    fu_call.op = "format" =>
        LET d == fu_call.arg.dist
            r == fu_call.ret.ratio_dist
        IN /\ r.kind = "number"
           /\ d.start_coords = d.end_coords => r.num = r.den
           /\ d.start_coords # d.end_coords => r.num >= 0

\* C11: an enrichment whose points all resolve to one physical-block id
\* reports an inter-block count of 0 and a net time of 0, and its block time
\* is the sum of the increments of all the points after the first.
C11_OneBlockNoNetTime ==
    (/\ fu_call.op = "enrich"
     /\ ~IsNone(fu_call.ret)
     /\ \A i, j \in DOMAIN fu_call.path.points :
           fu_call.path.points[i].pb_id = fu_call.path.points[j].pb_id)
    => LET pts == fu_call.arg.points
           st == Val(fu_call.ret).stat
       IN /\ st.nb_pbs = 0
          /\ st.net_time = 0
          /\ st.pb_time = SumSeq([i \in 1..Len(pts) |->
                                    IF i = 1 THEN 0 ELSE pts[i].t_incr])

\* an enriched Path of two or more points, all in one block, with a delay
C11_Witness ==
    /\ fu_call.op = "enrich"
    /\ ~IsNone(fu_call.ret)
    /\ Len(fu_call.path.points) >= 2
    /\ \A i, j \in DOMAIN fu_call.path.points :
          fu_call.path.points[i].pb_id = fu_call.path.points[j].pb_id
    /\ Val(fu_call.ret).stat.pb_time > 0

\* the start or the end point of the Path is a logic-function or latch
\* point for which the pin resolution of the netlist returns not-found
PinNotFound(b, pts) ==
    \E i \in {1, Len(pts)} :
        /\ pts[i].node_type \in {".names", ".latch"}
        /\ LET r == BlifParserGetPin(Val(b), pts[i].point,
                                     ElementType(pts[i].node_type))
           IN IsNone(r.raised) /\ IsNone(r.ret)

\* C12: an enrichment with a netlist whose pin resolution returns not-found
\* for the first or the last point, every point being resolved by the
\* locator, raises nothing and returns an EnrichedPath.
C12_NotFoundIsNoError ==
    (/\ fu_call.op = "enrich"
     /\ ~IsNone(blif)
     /\ \A i \in DOMAIN fu_call.path.points :
           ~IsNone(fu_call.path.points[i].pb_id)
     /\ PinNotFound(blif, fu_call.arg.points))
    => IsNone(fu_call.raised) /\ ~IsNone(fu_call.ret)

\* C13: an enrichment without a netlist raises only when the locator cannot
\* resolve one of the points, and the start and end instance names of the
\* EnrichedPath it returns are the names of the first and of the last point.
C13_NoNetlistRawNames ==
    (fu_call.op = "enrich" /\ IsNone(blif)) =>
        LET pts == fu_call.arg.points
        IN /\ ~IsNone(fu_call.raised) =>
                \E i \in DOMAIN pts :
                    IsNone(GetIdCoords(CreateLut(net, place), pts[i].point))
           /\ IsNone(fu_call.raised) =>
                /\ ~IsNone(fu_call.ret)
                /\ Val(fu_call.ret).start_inst = pts[1].point
                /\ Val(fu_call.ret).end_inst = pts[Len(pts)].point

\* an enrichment without a netlist of a Path between two different points
C13_Witness ==
    /\ fu_call.op = "enrich"
    /\ IsNone(blif)
    /\ ~IsNone(fu_call.ret)
    /\ Val(fu_call.ret).start_inst # Val(fu_call.ret).end_inst

\* ------------------------------------------------------------------------
\* Properties of the netlist queries
\* ------------------------------------------------------------------------
\* C14: get_pin of a model without a namespace returns what the first of
\* the lookups logic-function, latch, sub-circuit that finds a signal
\* returns, not-found when none finds one; with a namespace it returns what
\* the lookup of that namespace returns.
C14_FirstLookupWins ==
    fu_call.op = "get_pin" =>
        LET n == GetPinNames(fu_call.model, fu_call.arg)
            l == GetPinLatch(fu_call.model, fu_call.arg)
            c == GetPinSubckt(fu_call.model, fu_call.arg)
        IN /\ fu_call.element_type = "names" => fu_call.ret = n
           /\ fu_call.element_type = "latch" => fu_call.ret = l
           /\ fu_call.element_type = "subckt" => fu_call.ret = c
           /\ fu_call.element_type = "None" =>
                fu_call.ret = IF ~IsNone(n) THEN n
                              ELSE IF ~IsNone(l) THEN l ELSE c

\* a point that the logic-function lookup and the sub-circuit lookup both
\* find, with different signals, queried without a namespace
C14_Witness ==
    /\ fu_call.op = "get_pin"
    /\ fu_call.element_type = "None"
    /\ ~IsNone(GetPinNames(fu_call.model, fu_call.arg))
    /\ ~IsNone(GetPinSubckt(fu_call.model, fu_call.arg))
    /\ GetPinNames(fu_call.model, fu_call.arg)
          # GetPinSubckt(fu_call.model, fu_call.arg)
    /\ fu_call.ret = GetPinNames(fu_call.model, fu_call.arg)

\* ------------------------------------------------------------------------
\* Properties of the scan of the timing report
\* ------------------------------------------------------------------------
\* C15: in every Path of the result list the cumulative delay does not
\* decrease from a point to the next.
C15_CumulativeDelayNeverDecreases ==
    \A k \in DOMAIN paths :
        \A i \in 1..(Len(paths[k].points) - 1) :
            paths[k].points[i].t_sum <= paths[k].points[i + 1].t_sum

\* C16: in every Path of the result list of a constructed parser, arrival
\* time, required time and slack time are all set or all unset.
C16_TimesSetTogether ==
    rt_pc = "done" =>
        \A k \in DOMAIN paths :
            /\ IsNone(paths[k].arrival_time) = IsNone(paths[k].required_time)
            /\ IsNone(paths[k].required_time) = IsNone(paths[k].slack_time)

\* the steps that scan a line, the line being recorded
Scanned == nread' = nread + 1 /\ ~IsNone(last_line')
\* the step appends a point to the current Path
PointAppended ==
    paths' = paths /\ Len(path'.points) = Len(path.points) + 1
\* startpoint and endpoint of the current Path are declared once the line
\* has been matched against the path description
HeaderKnown == ~IsNone(path'.startpoint) /\ ~IsNone(path'.endpoint)
\* the line matches the point pattern: name, (type), at least two blanks or
\* an edge tag, increment, sum
IsPointLine(line) == line.k = "point" /\ line.form # "narrow"

\* v is t written with p decimals: t itself when p >= 1 (times are counted
\* in tenths), the nearest whole number, the even one at a tie, when p = 0
WrittenAt(v, t, p) ==
    IF p >= 1 THEN v = t
    ELSE /\ v % 10 = 0
         /\ Abs(v - t) <= 5
         /\ Abs(v - t) = 5 => (v \div 10) % 2 = 0

\* C17 as stated: every point appended carries an increment that is at
\* least the carried sum of net-delay increments.
C17_PointCarriesAtLeastTheCarry ==
    [][(Scanned /\ PointAppended) =>
          path'.points[Len(path'.points)].t_incr >= t_incr]_vars

\* C17 amended: a point appended carries its reported increment, unless that
\* is smaller than the carry: then it carries the carry written at the
\* precision of the report.  The carry grows by the increment of every net
\* line and returns to zero at every line matching the point pattern, when
\* these are scanned while startpoint and endpoint of the current Path are
\* declared; no other line changes it.
C17_ClampToWrittenCarry ==
    [][Scanned =>
          LET line == Val(last_line')
          IN /\ PointAppended =>
                  LET new == path'.points[Len(path'.points)]
                  IN IF line.n < t_incr
                     THEN WrittenAt(new.t_incr, t_incr, precision')
                     ELSE new.t_incr = line.n
             /\ t_incr' = IF HeaderKnown /\ IsPointLine(line) THEN 0
                          ELSE IF HeaderKnown /\ line.k = "net"
                          THEN t_incr + line.n
                          ELSE t_incr]_vars

\* a point whose reported increment was replaced by the carry
C17_Witness ==
    /\ ~IsNone(last_line)
    /\ IsPointLine(Val(last_line))
    /\ path.points # << >>
    /\ path.points[Len(path.points)].point = Val(last_line).name
    /\ path.points[Len(path.points)].t_incr > Val(last_line).n

\* C18: a slack line after which the scan goes on leaves an empty current
\* Path with unset header fields, a clear token and a carry of zero.
C18_SlackLineResetsTheCursor ==
    [][(Len(paths') = Len(paths) + 1 /\ rt_pc' = "scan") =>
          (path' = NewPath /\ token' = FALSE /\ t_incr' = 0)]_vars

\* the line sets the token or finds it set: it matches the start token of
\* the current Path, or the token is set already
InBody(line) ==
    \/ token
    \/ /\ HeaderKnown
       /\ IsPointLine(line)
       /\ line.name = Val(path'.startpoint)

\* the number of entries the step adds to the current Path
Added == IF paths' = paths THEN Len(path'.points) - Len(path.points)
         ELSE Len(path'.points)

\* C19 as stated: a line matching the point pattern or the net-delay
\* pattern adds one entry while the token is set, and no line adds an entry
\* while it is clear.
C19_PointsAndNetsAreAppended ==
    [][Scanned =>
          LET line == Val(last_line')
          IN /\ (InBody(line) /\ (IsPointLine(line) \/ line.k = "net"))
                   => Added = 1
             /\ ~InBody(line) => Added = 0]_vars

\* C19 amended: while the token is set (from the line matching the start
\* token through the line matching the end token) and startpoint and
\* endpoint of the current Path are declared, every line matching the point
\* pattern adds one entry to the current Path; no other line adds an entry,
\* a net line adds its increment to the carry instead.
C19_OnlyPointsInTheBodyAreAppended ==
    [][Scanned =>
          LET line == Val(last_line')
          IN /\ Added = IF HeaderKnown /\ InBody(line) /\ IsPointLine(line)
                        THEN 1 ELSE 0
             /\ token' = IF ~HeaderKnown THEN token
                         ELSE IF /\ InBody(line)
                                 /\ line.k = "point"
                                 /\ line.form # "edge"
                                 /\ line.name = Val(path'.endpoint)
                         THEN FALSE
                         ELSE InBody(line)]_vars

\* a net line scanned in the body of a Path that holds a point
C19_Witness ==
    /\ ~IsNone(last_line)
    /\ Val(last_line).k = "net"
    /\ token
    /\ path.points # << >>
    /\ t_incr > 0

\* C20: no line of the netlist changes a model that is in the result list,
\* nor any of its blocks.
C20_AppendedModelsAreFrozen ==
    [][\A i \in DOMAIN bl_models :
          ~IsNone(bl_models[i]) =>
              bl_heap'[Val(bl_models[i])] = bl_heap[Val(bl_models[i])]]_vars

\* the number of consecutive point pairs of pts whose physical-block ids
\* differ
DifferingPairs(pts) ==
    Cardinality({i \in 1..(Len(pts) - 1) : pts[i].pb_id # pts[i + 1].pb_id})

\* C21: the inter-block count of an EnrichedPath is the number of
\* consecutive point pairs whose physical-block ids differ, minus one, and
\* is never negative: it is 0 when no pair differs and when one pair does.
C21_InterBlockCount ==
    (fu_call.op = "enrich" /\ ~IsNone(fu_call.ret))
    => LET d == DifferingPairs(fu_call.path.points)
           nb == Val(fu_call.ret).stat.nb_pbs
       IN /\ nb >= 0
          /\ d <= 1 => nb = 0
          /\ d >= 1 => nb = d - 1

\* an enriched Path that leaves its block and comes back: two pairs differ
C21_Witness ==
    /\ fu_call.op = "enrich"
    /\ ~IsNone(fu_call.ret)
    /\ DifferingPairs(fu_call.path.points) = 2
    /\ Val(fu_call.ret).stat.nb_pbs = 1

\* the increments of the points of pts after the first that are, or are not,
\* in the physical block of their predecessor, added up
IncrWhere(pts, same) ==
    SumSeq([i \in 1..Len(pts) |->
              IF i >= 2 /\ ((pts[i].pb_id = pts[i - 1].pb_id) <=> same)
              THEN pts[i].t_incr ELSE 0])

C23_SubcktsOfAllButTheLast ==
    (fu_call.op = "enrich" /\ ~IsNone(fu_call.ret))
    => LET pts == fu_call.path.points
       IN Val(fu_call.ret).stat.subckts =
             {pts[i].node_type : i \in
                 {j \in 1..(Len(pts) - 1) : ~StartsWithDot(pts[j].node_type)}}

\* the endpoints of the paths of ps that start at start, in path order
EndpointsFrom(ps, start) ==
    LET sel == SelectSeq(ps, LAMBDA p : p.startpoint = start)
    IN [i \in 1..Len(sel) |-> sel[i].endpoint]

\* the position in ps of the first path that starts at start
FirstFrom(ps, start) == Min({k \in 1..Len(ps) : ps[k].startpoint = start})

\* C24: grouping by startpoint is a stable partition of the parsed paths:
\* every Path is in exactly one group, the one keyed by its startpoint; a
\* group's total is the length of its endpoint list; the endpoints of a
\* group are in path order; the groups are in order of first occurrence;
\* the totals add up to the number of parsed paths.
C24_GroupsAreAStablePartition ==
    rt_pc \in {"done", "raised_stats"} =>
        /\ \A k \in 1..Len(paths) :
              Cardinality({i \in 1..Len(groups) :
                              groups[i].start = paths[k].startpoint}) = 1
        /\ \A i \in 1..Len(groups) :
              /\ groups[i].total = Len(groups[i].end_list)
              /\ groups[i].end_list = EndpointsFrom(paths, groups[i].start)
              /\ groups[i].total >= 1
              /\ groups[i].end = groups[i].end_list[1]
        /\ \A i, j \in 1..Len(groups) :
              i < j => FirstFrom(paths, groups[i].start)
                          < FirstFrom(paths, groups[j].start)
        /\ SumSeq([i \in 1..Len(groups) |-> groups[i].total]) = Len(paths)

\* a parsed report with two groups, the first holding two paths of
\* different endpoints with a path of the other group between them
C24_Witness ==
    /\ rt_pc \in {"done", "raised_stats"}
    /\ Len(groups) = 2
    /\ Len(paths) = 3
    /\ paths[1].startpoint = paths[3].startpoint
    /\ paths[1].startpoint # paths[2].startpoint
    /\ groups[1].total = 2
    /\ groups[1].end_list[1] # groups[1].end_list[2]

\* PathBuilder(p, blif, pbloc) run alone against a locator built afresh from
\* the hierarchy and the placement: what it raises and the EnrichedPath
EnrichedAlone(p) ==
    LET r == PlaceLoop(p.points, 1, CreateLut(net, place))
        raised == IF ~IsNone(r.raised) THEN r.raised
                  ELSE InstanceRaised(blif, r.points)
    IN [raised |-> raised,
        ret |-> IF IsNone(raised) THEN Some(BuildPath(p, r.points, blif))
                ELSE None]

\* C25: whatever the order and the interleaving of the workers, a worker
\* that completes holds the EnrichedPath (block ids, coordinates, labels,
\* timing and distance metrics) that enriching its Path alone against a
\* freshly built locator yields, and one that raises does so alone as well.
C25_InterleavingYieldsTheResultAlone ==
    \A w \in DOMAIN workers :
        /\ workers[w].pc = "done" =>
              /\ workers[w].ret = EnrichedAlone(workers[w].arg).ret
              /\ ~IsNone(workers[w].ret)
        /\ workers[w].pc = "raised" =>
              workers[w].raised = EnrichedAlone(workers[w].arg).raised

\* two workers completed different Paths, one of them having written to
\* an entry of the LUT between the write and the read of the other
C25_Witness ==
    /\ Len(workers) = 2
    /\ workers[1].pc = "done"
    /\ workers[2].pc = "done"
    /\ workers[1].arg # workers[2].arg
    /\ workers[1].met \/ workers[2].met

\* ------------------------------------------------------------------------
\* Properties of Net.get_route
\* ------------------------------------------------------------------------

\* the node list holds an output pin at start followed later by an input
\* pin at end
PinsInOrder(nodes, start, end) ==
    \E i, j \in DOMAIN nodes :
        /\ i < j
        /\ nodes[i].node_type = "opin"
        /\ << nodes[i].x, nodes[i].y >> = start
        /\ nodes[j].node_type = "ipin"
        /\ << nodes[j].x, nodes[j].y >> = end

\* C26: get_route(start, end) returns a result if and only if the node
\* list of the net holds an output-pin node at the start coordinates
\* followed later by an input-pin node at the end coordinates; otherwise it
\* returns None.
C26_RouteIffPinsInOrder ==
    route_call.op = "get_route" =>
        (~IsNone(route_call.ret)
            <=> PinsInOrder(route_net, route_call.start, route_call.end))

\* a route found on a net that lists an input pin at the end coordinates
\* before the output pin as well
C26_Witness ==
    /\ route_call.op = "get_route"
    /\ ~IsNone(route_call.ret)
    /\ \E i, j \in DOMAIN route_net :
          /\ i < j
          /\ route_net[i].node_type = "ipin"
          /\ << route_net[i].x, route_net[i].y >> = route_call.end
          /\ route_net[j].node_type = "opin"
          /\ << route_net[j].x, route_net[j].y >> = route_call.start

\* C27: a route returned by get_route is a simple trace from the start pin
\* to the end pin: as many node ids as coordinates, node ids pairwise
\* distinct, the first entry an output pin at the start coordinates, the
\* last entry the input pin at the end coordinates, no other input pin.
C27_RouteIsASimpleTrace ==
    (route_call.op = "get_route" /\ ~IsNone(route_call.ret)) =>
        LET r == Val(route_call.ret)
            n == Len(r.node_ids)
            NodeOf(k) == RouteNodes[r.node_ids[k]]
        IN /\ Len(r.path) = n
           /\ n >= 2
           /\ \A k, l \in 1..n : k # l => r.node_ids[k] # r.node_ids[l]
           /\ \A k \in 1..n : r.path[k] = << NodeOf(k).x, NodeOf(k).y >>
           /\ NodeOf(1).node_type = "opin"
           /\ r.path[1] = route_call.start
           /\ NodeOf(n).node_type = "ipin"
           /\ r.path[n] = route_call.end
           /\ \A k \in 1..(n - 1) : NodeOf(k).node_type # "ipin"

\* a route found on a net that passes an input pin elsewhere and starts a
\* branch from a node listed before
C27_Witness ==
    /\ route_call.op = "get_route"
    /\ ~IsNone(route_call.ret)
    /\ \E i, j, k, l \in DOMAIN route_net :
          /\ i < j /\ j < k /\ k < l
          /\ IsStartPin(route_net[i], route_call.start)
          /\ route_net[j].node_type = "ipin"
          /\ ~IsEndPin(route_net[j], route_call.end)
          /\ \E h \in i..(k - 1) : route_net[h] = route_net[k]
          /\ IsEndPin(route_net[l], route_call.end)
          /\ \A h \in 1..(l - 1) : ~IsEndPin(route_net[h], route_call.end)

\* ------------------------------------------------------------------------
\* Properties of the distances of an EnrichedPath
\* ------------------------------------------------------------------------

\* C28: the Manhattan distance between the first and the last point of an
\* EnrichedPath is at most the cumulative point-to-point Manhattan
\* distance, and the two are equal for a path of two points.
C28_ManhattanAtMostCumulative ==
    (fu_call.op = "enrich" /\ ~IsNone(fu_call.ret))
    => LET pts == fu_call.path.points
           dist == Val(fu_call.ret).dist
       IN /\ dist.manhattan_dist =
                Abs(Val(pts[1].x) - Val(pts[Len(pts)].x))
                + Abs(Val(pts[1].y) - Val(pts[Len(pts)].y))
          /\ dist.manhattan_dist <= dist.pb2pb_dist
          /\ Len(pts) = 2 => dist.manhattan_dist = dist.pb2pb_dist

\* an enriched Path that leaves its block for one placed elsewhere and
\* comes back: the ends coincide and the hops add up to more
C28_Witness ==
    /\ fu_call.op = "enrich"
    /\ ~IsNone(fu_call.ret)
    /\ Len(fu_call.path.points) = 3
    /\ Val(fu_call.ret).dist.manhattan_dist = 0
    /\ Val(fu_call.ret).dist.pb2pb_dist > 0

\* ------------------------------------------------------------------------
\* Properties of the header fields of a path block
\* ------------------------------------------------------------------------
HeaderFields ==
    {"id", "startpoint", "endpoint", "type", "arrival_time",
     "required_time", "slack_time"}

\* the value of header field f that the line carries, None when the line
\* does not match the pattern of f
HeaderValue(line, f) ==
    CASE f = "id" /\ line.k = "pathid"                -> Some(line.n)
      [] f = "startpoint" /\ line.k = "startpoint"    -> Some(line.name)
      [] f = "endpoint" /\ line.k = "endpoint"        -> Some(line.name)
      [] f = "type" /\ line.k = "type"                -> Some(line.name)
      [] f = "arrival_time" /\ line.k = "arrival"     -> Some(line.n)
      [] f = "required_time" /\ line.k = "required"   -> Some(line.n)
      [] f = "slack_time" /\ line.k = "slack"         -> Some(line.n)
      [] OTHER                                        -> None

\* C29: within a path block every header field (id, startpoint, endpoint,
\* path type, arrival time, required time, slack time) keeps the value of
\* the first line that matches its pattern: a matching line sets a field
\* that is unset, and no line before the next slack line overwrites a field
\* that is set.
C29_FirstMatchingLineWins ==
    [][nread' = nread + 1 =>
          LET line == Val(last_line')
              \* the Path of the block after the line: the one appended
              \* when the line is the slack line
              after == IF line.k = "slack" THEN paths'[Len(paths')]
                       ELSE path'
          IN \A f \in HeaderFields :
                after[f] = IF ~IsNone(path[f]) THEN path[f]
                           ELSE HeaderValue(line, f)]_vars

\* a second arrival-time line of another value was scanned in a block and
\* the field holds the first value
C29_Witness ==
    /\ ~IsNone(last_line)
    /\ Val(last_line).k = "arrival"
    /\ ~IsNone(path.arrival_time)
    /\ path.arrival_time # Some(Val(last_line).n)
    /\ paths # << >>

\* ------------------------------------------------------------------------
\* Properties of the multi-line rules of BaseParser
\* ------------------------------------------------------------------------

\* a start-trigger line of rule r was scanned before line l and no
\* end-trigger line of r between it and line l
OpenBefore(r, l) ==
    \E k \in 1..(l - 1) :
        /\ StartSearch(bp_rules[r], bp_scanned[k])
        /\ \A j \in (k + 1)..(l - 1) : ~EndSearch(bp_rules[r], bp_scanned[j])

\* line l opens a block of rule r, or closes one
OpensBlock(r, l) ==
    /\ StartSearch(bp_rules[r], bp_scanned[l])
    /\ ~OpenBefore(r, l) \/ EndSearch(bp_rules[r], bp_scanned[l])
ClosesBlock(r, l) ==
    OpenBefore(r, l) /\ EndSearch(bp_rules[r], bp_scanned[l])

\* C30: a multi-line rule stores the match of a line only when a
\* start-trigger line was scanned earlier and no end-trigger line has been
\* scanned since, the line itself included; the start-trigger line that
\* opens a block and the end-trigger line that closes it are never stored.
C30_StoredOnlyInsideABlock ==
    \A l \in 1..Len(bp_scanned) :
        \A r \in bp_stored[l] :
            /\ OpenBefore(r, l)
            /\ ~EndSearch(bp_rules[r], bp_scanned[l])
            /\ ~OpensBlock(r, l)
            /\ ~ClosesBlock(r, l)

\* the first rule stored a line of a block whose opening line and closing
\* line both carry a match and were not stored
C30_Witness ==
    \E k, l, m \in 1..Len(bp_scanned) :
        /\ k < l /\ l < m
        /\ OpensBlock(1, k) /\ ~IsNone(bp_scanned[k].kv)
        /\ 1 \in bp_stored[l]
        /\ ClosesBlock(1, m) /\ ~IsNone(bp_scanned[m].kv)
        /\ 1 \notin bp_stored[k]
        /\ 1 \notin bp_stored[m]
        /\ DictHas(bp_results, << "r1", "x" >>)

====
